---- MODULE Spec2Model ----
(***************************************************************************)
(* A model of the slot-machine engine (slot-machine-ts/src/slotmachine.ts),*)
(* of its earlier copy (unnamed/part_000) and of the bonus-session         *)
(* controller and event handlers of slot-machine-ts/src/main.ts.           *)
(*                                                                         *)
(* Conventions.                                                            *)
(*  - Grids and overlays are indexed from 0, [row][col], as in the code.   *)
(*  - Payout multipliers are rationals with denominator 2 (the table holds *)
(*    1.5); the model stores TWICE the multiplier, so that                 *)
(*    Math.floor(bet * mult) is (bet * twice) \div 2.                      *)
(*  - A random draw rng.next() in [0,1) is represented by the integer part *)
(*    of rng.next() * totalWeight, a value of 0 .. totalWeight-1: the      *)
(*    picker compares the product with integer prefix sums only.           *)
(*  - A JavaScript number argument is represented by twice its value       *)
(*    (so halves are representable) or by NaN.                             *)
(***************************************************************************)
EXTENDS Integers, Sequences, FiniteSets, TLC

VARIABLES
  cfg,        \* SlotMachine.config
  wallet,     \* SlotMachine.wallet: [balanceCents, betCents]
  last,       \* the last engine call: operation, argument, status, number of
              \* rng.next() calls it made, returned value
  gen,        \* a grid generator in progress (one draw per step)
  sc,         \* a scoreGrid call: its arguments and its result
  ui          \* main.ts: controls, handler positions, bonus session locals

vars == <<cfg, wallet, last, gen, sc, ui>>

----------------------------------------------------------------------------
(* Bounds of the model *)

MaxBalance == 8      \* balances explored: 0 .. MaxBalance
MaxBet == 2          \* bets explored: 1 .. MaxBet
MaxWild == 2         \* overlay multipliers explored by the generators: 0 .. MaxWild
MaxClicks == 1       \* spin clicks explored before the bonus session
MaxRetriggers == 1   \* retriggers explored per bonus session
MaxRedraws == 1      \* rejected draws explored per generated grid
MaxDim == 2          \* rows and reels offered to the constructor: -1 .. MaxDim
MaxSteppedSpins == 2 \* bonus spins followed step by step in SpecWilds

----------------------------------------------------------------------------
(* types.ts, DEFAULT_PAYOUT *)

SymbolId == {"CHERRY", "LEMON", "STAR", "SEVEN", "FS"}

\* twice the multipliers of DEFAULT_PAYOUT
DEFAULT_PAYOUT ==
  [s \in SymbolId |->
     CASE s = "CHERRY" -> [l \in 3..5 |-> CASE l = 3 -> 3  [] l = 4 -> 6  [] l = 5 -> 12]
       [] s = "LEMON"  -> [l \in 3..5 |-> CASE l = 3 -> 4  [] l = 4 -> 8  [] l = 5 -> 16]
       [] s = "STAR"   -> [l \in 3..5 |-> CASE l = 3 -> 6  [] l = 4 -> 12 [] l = 5 -> 24]
       [] s = "SEVEN"  -> [l \in 3..5 |-> CASE l = 3 -> 10 [] l = 4 -> 24 [] l = 5 -> 50]
       [] s = "FS"     -> [l \in 3..5 |-> 0]]

Sym(id, weight) == [id |-> id, weight |-> weight]

\* Configurations the constructor accepts (rows > 0, reels > 0, symbols non-empty).
CfgWide ==
  [rows |-> 1, reels |-> 6,
   symbols |-> <<Sym("CHERRY", 1), Sym("FS", 1)>>, payoutTable |-> DEFAULT_PAYOUT]

CfgTall ==
  [rows |-> 2, reels |-> 3,
   symbols |-> <<Sym("CHERRY", 1), Sym("FS", 1)>>, payoutTable |-> DEFAULT_PAYOUT]

CfgOnlyFS ==
  [rows |-> 1, reels |-> 3,
   symbols |-> <<Sym("FS", 1)>>, payoutTable |-> DEFAULT_PAYOUT]

Rows(k) == 0 .. (k.rows - 1)
Cols(k) == 0 .. (k.reels - 1)

----------------------------------------------------------------------------
(* SlotMachine constructor: cumulative weights; pickWeightedSymbol *)

RECURSIVE cumulative(_, _)
cumulative(k, i) == IF i = 0 THEN 0 ELSE cumulative(k, i - 1) + k.symbols[i].weight

totalWeight(k) == cumulative(k, Len(k.symbols))

Draws(k) == 0 .. (totalWeight(k) - 1)

\* for (const e of this.cumulative) if (r < e.cum) return e.id; return last
pickWeightedSymbol(k, d) ==
  LET hits == {i \in 1..Len(k.symbols) : d < cumulative(k, i)}
  IN IF hits = {} THEN k.symbols[Len(k.symbols)].id
     ELSE k.symbols[CHOOSE i \in hits : \A j \in hits : i <= j].id

----------------------------------------------------------------------------
(* countScatters *)

Cells(k) == Rows(k) \X Cols(k)

countScatters(k, grid) ==
  Cardinality({p \in Cells(k) : grid[p[1]][p[2]] = "FS"})

----------------------------------------------------------------------------
(* Grid generators, one rng draw per step.                                 *)
(* A generator state: the loop indices, the column's fsPlaced flag, the    *)
(* grid filled so far and whether the loops have exited.                   *)

EmptyGrid(k) == [r \in Rows(k) |-> [c \in Cols(k) |-> "undefined"]]

NoWilds == [r \in {} |-> 0]     \* the overlay argument left undefined

ZeroWilds(k) == [r \in Rows(k) |-> [c \in Cols(k) |-> 0]]

genStart(kind, k) ==
  [kind |-> kind, r |-> 0, c |-> 0, fsPlaced |-> FALSE,
   grid |-> EmptyGrid(k), done |-> FALSE]

\* column-major placement shared by the two generators of slotmachine.ts:
\* grid[r][c] = sym; if (sym === "FS") fsPlaced = true; r++ (then c++)
placeColumnMajor(k, g, sym) ==
  LET r1 == g.r + 1
      endCol == r1 = k.rows
      c1 == IF endCol THEN g.c + 1 ELSE g.c
  IN [g EXCEPT !.grid[g.r][g.c] = sym,
               !.r = IF endCol THEN 0 ELSE r1,
               !.c = c1,
               !.fsPlaced = IF endCol THEN FALSE ELSE (g.fsPlaced \/ sym = "FS"),
               !.done = (c1 = k.reels)]

\* slotmachine.ts generateGrid: do { sym = pick() } while (sym === "FS" && fsPlaced)
generateGridStep(k, g, d) ==
  LET sym == pickWeightedSymbol(k, d)
  IN IF sym = "FS" /\ g.fsPlaced THEN g ELSE placeColumnMajor(k, g, sym)

\* slotmachine.ts generateGridForBonus:
\* do { sym = pick() } while (sym === "FS" && (fsPlaced || cellHasWild))
generateGridForBonusStep_ignoreWild(k, wilds, g, d) ==
  LET sym == pickWeightedSymbol(k, d)
  IN IF sym = "FS" /\ g.fsPlaced THEN g ELSE placeColumnMajor(k, g, sym)
generateGridForBonusStep(k, wilds, g, d) ==
  LET sym == pickWeightedSymbol(k, d)
      cellHasWild == wilds[g.r][g.c] > 0
  IN IF sym = "FS" /\ (g.fsPlaced \/ cellHasWild) THEN g
     ELSE placeColumnMajor(k, g, sym)

\* part_000 generateGrid: row-major, row.push(this.pickWeightedSymbol()), no redraw
generateGridStep_part000(k, g, d) ==
  LET sym == pickWeightedSymbol(k, d)
      c1 == g.c + 1
      endRow == c1 = k.reels
      r1 == IF endRow THEN g.r + 1 ELSE g.r
  IN [g EXCEPT !.grid[g.r][g.c] = sym,
               !.c = IF endRow THEN 0 ELSE c1,
               !.r = r1,
               !.done = (r1 = k.rows)]

GenStep(k, wilds, g, d) ==
  CASE g.kind = "base"    -> generateGridStep(k, g, d)
    [] g.kind = "bonus"   -> generateGridForBonusStep(k, wilds, g, d)
    [] g.kind = "part000" -> generateGridStep_part000(k, g, d)

\* A whole generator call: every way it can return within `budget` draws, as the
\* set of [grid, draws consumed], over all values of the draws.
RECURSIVE RunGen(_, _, _, _, _)
RunGen(k, wilds, g, used, budget) ==
  IF g.done THEN {[grid |-> g.grid, draws |-> used]}
  ELSE IF budget = 0 THEN {}
  ELSE UNION {RunGen(k, wilds, GenStep(k, wilds, g, d), used + 1, budget - 1) :
                d \in Draws(k)}

\* one draw per cell and at most MaxRedraws rejected draws
generate(kind, k, wilds) ==
  RunGen(k, wilds, genStart(kind, k), 0, k.rows * k.reels + MaxRedraws)

----------------------------------------------------------------------------
(* scoreGrid *)

InBounds(k, r, c) == r >= 0 /\ r < k.rows /\ c >= 0 /\ c < k.reels

\* wilds ? wilds[r][c] | 0 : 0
WildAt(wilds, r, c) == IF wilds = NoWilds THEN 0 ELSE wilds[r][c]

\* bestFiveSymbol: the first non-FS symbol with the strictly highest 5-run pay;
\* with no non-FS symbol, find(...) is undefined and reading .id throws.
bestFiveSymbol(k) ==
  LET idx == {i \in 1..Len(k.symbols) : k.symbols[i].id # "FS"}
      pay(i) == k.payoutTable[k.symbols[i].id][5]
  IN IF idx = {} THEN "TypeError"
     ELSE k.symbols[CHOOSE i \in idx :
                      /\ \A j \in idx : pay(j) <= pay(i)
                      /\ \A j \in idx : j < i => pay(j) < pay(i)].id

\* scoreRun, part 1: the first non-wild symbol within 5 in-bounds cells, else null
findTarget_firstCell(k, grid, wilds, r, c, dr, dc, n) ==
  IF n < 5 /\ InBounds(k, r, c) THEN grid[r][c] ELSE "null"
RECURSIVE findTarget(_, _, _, _, _, _, _, _)
findTarget(k, grid, wilds, r, c, dr, dc, n) ==
  IF n < 5 /\ InBounds(k, r, c)
  THEN IF WildAt(wilds, r, c) > 0
       THEN findTarget(k, grid, wilds, r + dr, c + dc, dr, dc, n + 1)
       ELSE grid[r][c]
  ELSE "null"

\* scoreRun, part 2: run length and product of the wild multipliers met
RECURSIVE countRun(_, _, _, _, _, _, _, _, _)
countRun(k, grid, wilds, target, r, c, dr, dc, n) ==
  IF n < 5 /\ InBounds(k, r, c) /\ (grid[r][c] = target \/ WildAt(wilds, r, c) > 0)
  THEN LET rest == countRun(k, grid, wilds, target, r + dr, c + dc, dr, dc, n + 1)
           w == WildAt(wilds, r, c)
       IN [len |-> rest.len + 1,
           productMult |-> IF w > 0 THEN w * rest.productMult ELSE rest.productMult]
  ELSE [len |-> 0, productMult |-> 1]

\* Math.floor(betCents * baseMult), then Math.floor(win * productMult)
lineWinCents_singleFloor(betCents, baseMult2, productMult) ==
  (betCents * baseMult2 * productMult) \div 2
lineWinCents(betCents, baseMult2, productMult) ==
  ((betCents * baseMult2) \div 2) * productMult

\* scoreRun: the line wins it pushes (none or one)
scoreRun(k, grid, betCents, wilds, bestSymbol, r0, c0, dr, dc) ==
  LET found == findTarget(k, grid, wilds, r0, c0, dr, dc, 0)
      target == IF found = "null" THEN bestSymbol ELSE found
      run == countRun(k, grid, wilds, target, r0, c0, dr, dc, 0)
      clamped == IF run.len >= 5 THEN 5 ELSE run.len
      win == lineWinCents(betCents, k.payoutTable[target][clamped], run.productMult)
  IN IF run.len >= 3 /\ win > 0
     THEN <<[startRow |-> r0, startCol |-> c0,
             endRow |-> r0 + (clamped - 1) * dr, endCol |-> c0 + (clamped - 1) * dc,
             length |-> clamped, symbol |-> target, winCents |-> win]>>
     ELSE << >>

\* scoreRun of the earlier copy of the engine: a line without a non-wild cell
\* returns before it is counted
scoreRun_part000(k, grid, betCents, wilds, r0, c0, dr, dc) ==
  LET target == findTarget(k, grid, wilds, r0, c0, dr, dc, 0)
  IN IF target = "null" THEN << >>
     ELSE scoreRun(k, grid, betCents, wilds, target, r0, c0, dr, dc)

\* the starts scanned, in order: rows, diagonals down-right, diagonals up-right
RECURSIVE lineStarts(_, _, _, _)
lineStarts(from, to, dr, dc) ==
  IF from > to THEN << >>
  ELSE <<[r0 |-> from, c0 |-> 0, dr |-> dr, dc |-> dc]>> \o lineStarts(from + 1, to, dr, dc)

Lines(k) ==
  lineStarts(0, k.rows - 1, 0, 1) \o lineStarts(0, k.rows - 3, 1, 1)
    \o lineStarts(2, k.rows - 1, -1, 1)

RECURSIVE scoreLines(_, _, _, _, _, _, _)
scoreLines(k, grid, betCents, wilds, bestSymbol, lines, i) ==
  IF i > Len(lines) THEN << >>
  ELSE scoreRun(k, grid, betCents, wilds, bestSymbol,
                lines[i].r0, lines[i].c0, lines[i].dr, lines[i].dc)
         \o scoreLines(k, grid, betCents, wilds, bestSymbol, lines, i + 1)

RECURSIVE sumWins(_, _)
sumWins(lineWins, i) ==
  IF i > Len(lineWins) THEN 0 ELSE lineWins[i].winCents + sumWins(lineWins, i + 1)

\* let bonusRetriggerSpins = 0; if (isInBonus) { if (scatters >= 3) ... = 2 }
retriggerSpins_anyMode(isInBonus, scatters) == IF scatters >= 3 THEN 2 ELSE 0
retriggerSpins(isInBonus, scatters) == IF isInBonus /\ scatters >= 3 THEN 2 ELSE 0

RECURSIVE scoreLines_part000(_, _, _, _, _, _)
scoreLines_part000(k, grid, betCents, wilds, lines, i) ==
  IF i > Len(lines) THEN << >>
  ELSE scoreRun_part000(k, grid, betCents, wilds,
                        lines[i].r0, lines[i].c0, lines[i].dr, lines[i].dc)
         \o scoreLines_part000(k, grid, betCents, wilds, lines, i + 1)

\* scoreGrid of the earlier copy: no isInBonus, no bonusRetriggerSpins
scoreGrid_part000(k, grid, betCents, wilds) ==
  LET lineWins == scoreLines_part000(k, grid, betCents, wilds, Lines(k), 1)
  IN [threw |-> FALSE,
      totalWinCents |-> sumWins(lineWins, 1),
      lineWins |-> lineWins,
      isJackpot |-> \E i \in 1..Len(lineWins) :
                       lineWins[i].symbol = "SEVEN" /\ lineWins[i].length = 5]

scoreGrid(k, grid, betCents, wilds, isInBonus) ==
  LET bestSymbol == bestFiveSymbol(k)
      lineWins == scoreLines(k, grid, betCents, wilds, bestSymbol, Lines(k), 1)
  IN IF bestSymbol = "TypeError"
     THEN [threw |-> TRUE, totalWinCents |-> 0, lineWins |-> << >>,
           isJackpot |-> FALSE, bonusRetriggerSpins |-> 0]
     ELSE [threw |-> FALSE,
           totalWinCents |-> sumWins(lineWins, 1),
           lineWins |-> lineWins,
           isJackpot |-> \E i \in 1..Len(lineWins) :
                            lineWins[i].symbol = "SEVEN" /\ lineWins[i].length = 5,
           bonusRetriggerSpins |-> retriggerSpins(isInBonus, countScatters(k, grid))]

----------------------------------------------------------------------------
(* The engine's wallet operations: setBetCents, addFunds, spin *)

Num(t) == [nan |-> FALSE, twice |-> t]     \* the number t / 2
NaN == [nan |-> TRUE, twice |-> 0]

\* arguments explored: -1, -0.5, 0, 0.5, 1, ..., MaxBet and NaN
ArgValues == {Num(t) : t \in -2 .. 2 * MaxBet} \cup {NaN}

Number_isInteger(x) == ~x.nan /\ x.twice % 2 = 0

\* !Number.isInteger(x) || x <= 0   (NaN <= 0 is false, NaN is no integer)
invalidBet_dropInteger(x) == ~x.nan /\ x.twice <= 0
invalidBet(x) == ~Number_isInteger(x) \/ x.twice <= 0

invalidFunds_dropSign(x) == ~Number_isInteger(x)
invalidFunds(x) == ~Number_isInteger(x) \/ x.twice <= 0

\* this.wallet.betCents > this.wallet.balanceCents
insufficientBalance_offByBet(w) == w.betCents > w.balanceCents + w.betCents
insufficientBalance(w) == w.betCents > w.balanceCents

\* this.wallet.balanceCents += scored.totalWinCents
creditWin_twice(balanceCents, totalWinCents) == balanceCents + 2 * totalWinCents
creditWin(balanceCents, totalWinCents) == balanceCents + totalWinCents

\* scatterCount >= 5 ? 10 : scatterCount === 4 ? 8 : scatterCount === 3 ? 5 : 0
freeSpinsFor_from4(scatterCount) ==
  IF scatterCount >= 4 THEN 10 ELSE IF scatterCount = 3 THEN 5 ELSE 0
freeSpinsFor(scatterCount) ==
  IF scatterCount >= 5 THEN 10
  ELSE IF scatterCount = 4 THEN 8
  ELSE IF scatterCount = 3 THEN 5
  ELSE 0

NoArg == Num(0)

NoResult ==
  [grid |-> << >>, totalWinCents |-> 0, lineWins |-> << >>,
   isJackpot |-> FALSE, freeSpinsAwarded |-> 0]

Call(op, arg, status, draws, result) ==
  [op |-> op, arg |-> arg, status |-> status, draws |-> draws, result |-> result]

setBetCents(newBet) ==
  IF invalidBet(newBet)
  THEN /\ last' = Call("setBetCents", newBet, "Error", 0, NoResult)
       /\ UNCHANGED wallet
  ELSE /\ wallet' = [wallet EXCEPT !.betCents = newBet.twice \div 2]
       /\ last' = Call("setBetCents", newBet, "ok", 0, NoResult)

addFunds(cents) ==
  IF invalidFunds(cents)
  THEN /\ last' = Call("addFunds", cents, "Error", 0, NoResult)
       /\ UNCHANGED wallet
  ELSE /\ wallet.balanceCents + cents.twice \div 2 <= MaxBalance
       /\ wallet' = [wallet EXCEPT !.balanceCents = @ + cents.twice \div 2]
       /\ last' = Call("addFunds", cents, "ok", 0, NoResult)

\* spin, rejected: throw new Error("Insufficient balance")
spinRejected ==
  /\ insufficientBalance(wallet)
  /\ last' = Call("spin", NoArg, "Error", 0, NoResult)
  /\ UNCHANGED wallet

\* spin, accepted, as a function of the wallet; run is what generateGrid returned
\* and the draws it consumed
spinOutcome(k, w, run) ==
  LET debited == w.balanceCents - w.betCents
      grid == run.grid
      scored == scoreGrid(k, grid, w.betCents, NoWilds, FALSE)
  IN IF scored.threw
     THEN [status |-> "TypeError",
           wallet |-> [w EXCEPT !.balanceCents = debited],
           result |-> NoResult]
     ELSE [status |-> "ok",
           wallet |-> [w EXCEPT !.balanceCents = creditWin(debited, scored.totalWinCents)],
           result |-> [grid |-> grid,
                       totalWinCents |-> scored.totalWinCents,
                       lineWins |-> scored.lineWins,
                       isJackpot |-> scored.isJackpot,
                       freeSpinsAwarded |-> freeSpinsFor(countScatters(k, grid))]]

spin(run) ==
  LET out == spinOutcome(cfg, wallet, run)
  IN /\ ~insufficientBalance(wallet)
     /\ out.wallet.balanceCents <= MaxBalance
     /\ wallet' = out.wallet
     /\ last' = Call("spin", NoArg, out.status, run.draws, out.result)

\* variables of the other specifications, at rest
GenIdle == [kind |-> "none"]
ScIdle == [phase |-> "none"]
UiIdle == [pc |-> "none"]

EngineConfigs == {CfgWide, CfgTall, CfgOnlyFS}

Init ==
  /\ cfg \in EngineConfigs
  /\ wallet \in [balanceCents : 0..MaxBalance, betCents : 1..MaxBet]
  /\ last = Call("new", NoArg, "ok", 0, NoResult)
  /\ gen = GenIdle
  /\ sc = ScIdle
  /\ ui = UiIdle

SetBetCents == \E x \in ArgValues : setBetCents(x) /\ UNCHANGED <<cfg, gen, sc, ui>>
AddFunds == \E x \in ArgValues : addFunds(x) /\ UNCHANGED <<cfg, gen, sc, ui>>
SpinRejected == spinRejected /\ UNCHANGED <<cfg, gen, sc, ui>>
Spin ==
  /\ ~insufficientBalance(wallet)
  /\ \E run \in generate("base", cfg, NoWilds) : spin(run)
  /\ UNCHANGED <<cfg, gen, sc, ui>>

Next == SetBetCents \/ AddFunds \/ SpinRejected \/ Spin

Spec == Init /\ [][Next]_vars

----------------------------------------------------------------------------
(* Claims about the wallet operations, checked under Spec *)

SpinOk(c) == c.op = "spin" /\ c.status = "ok"

\* a positive integer, stated on the number itself
IsPositiveInteger(x) == ~x.nan /\ \E n \in 1..(MaxBet + 1) : x.twice = n + n

\* the Scatters of a grid, wherever they are
ScatterCells(grid) ==
  {p \in (DOMAIN grid) \X (UNION {DOMAIN grid[r] : r \in DOMAIN grid}) :
     p[2] \in DOMAIN grid[p[1]] /\ grid[p[1]][p[2]] = "FS"}

StepAward(n) == CASE n < 3 -> 0 [] n = 3 -> 5 [] n = 4 -> 8 [] n >= 5 -> 10

\* C1: in every reachable state of an engine constructed with balanceCents >= 0
\* and betCents > 0, whatever spin, setBetCents and addFunds calls were made
\* (accepted or rejected), balanceCents >= 0 and betCents > 0.
C1_WalletInvariant == wallet.balanceCents >= 0 /\ wallet.betCents > 0

\* a spin that was accepted with the bet equal to the whole balance and won nothing
C1_Witness ==
  /\ SpinOk(last)
  /\ last.result.totalWinCents = 0
  /\ wallet.balanceCents = 0

\* C2: a rejected call (setBetCents or addFunds with an argument that is not a
\* positive integer, spin with betCents > balanceCents) raises an error, leaves
\* balanceCents and betCents as they were, draws nothing from the rng and
\* generates no grid.
C2_RejectedCallChangesNothing ==
  [][LET rejected ==
           \/ last'.op \in {"setBetCents", "addFunds"} /\ ~IsPositiveInteger(last'.arg)
           \/ last'.op = "spin" /\ wallet.betCents > wallet.balanceCents
     IN rejected => /\ last'.status = "Error"
                    /\ wallet' = wallet
                    /\ last'.draws = 0
                    /\ last'.result = NoResult]_vars

\* a spin rejected for insufficient balance
C2_Witness ==
  /\ last.op = "spin" /\ last.status = "Error"
  /\ wallet.betCents > wallet.balanceCents

C8_ScatterAwardStepFunction ==
  SpinOk(last) =>
    LET n == Cardinality(ScatterCells(last.result.grid))
        fs == last.result.freeSpinsAwarded
    IN /\ n < 3 => fs = 0
       /\ n = 3 => fs = 5
       /\ n = 4 => fs = 8
       /\ n >= 5 => fs = 10
       /\ fs \in {0, 5, 8, 10}

\* a spin whose grid holds more than 5 Scatters
C8_Witness ==
  /\ SpinOk(last)
  /\ Cardinality(ScatterCells(last.result.grid)) > 5
  /\ last.result.freeSpinsAwarded = 10

----------------------------------------------------------------------------
(* The grid generators on their own, one rng draw per step: SpecGen *)

CfgGenSquare ==
  [rows |-> 2, reels |-> 2,
   symbols |-> <<Sym("CHERRY", 2), Sym("FS", 1)>>, payoutTable |-> DEFAULT_PAYOUT]

CfgGenColumn ==
  [rows |-> 3, reels |-> 1,
   symbols |-> <<Sym("CHERRY", 1), Sym("FS", 2), Sym("LEMON", 1)>>,
   payoutTable |-> DEFAULT_PAYOUT]

\* the constructor asks for a non-empty symbol list, not for a non-Scatter symbol
CfgGenOnlyFS ==
  [rows |-> 2, reels |-> 1,
   symbols |-> <<Sym("FS", 1)>>, payoutTable |-> DEFAULT_PAYOUT]

GenConfigs == {CfgGenSquare, CfgGenColumn, CfgGenOnlyFS}

Overlays(k) == [Rows(k) -> [Cols(k) -> 0..MaxWild]]

\* a call of generateGrid (slotmachine.ts), generateGridForBonus(wilds) or
\* generateGrid (part_000); wilds0 is the overlay as it was passed in
genCall(kind, wilds) ==
  gen' = [kind |-> kind, st |-> genStart(kind, cfg), wilds |-> wilds, wilds0 |-> wilds]

\* one pickWeightedSymbol() of the running call
genDraw(d) ==
  /\ gen.kind # "none"
  /\ ~gen.st.done
  /\ gen' = [gen EXCEPT !.st = GenStep(cfg, gen.wilds, gen.st, d)]

GenReady == gen.kind = "none" \/ gen.st.done

CallGenerateGrid ==
  GenReady /\ genCall("base", NoWilds) /\ UNCHANGED <<cfg, wallet, last, sc, ui>>

CallGenerateGridForBonus ==
  /\ GenReady
  /\ \E w \in Overlays(cfg) : genCall("bonus", w)
  /\ UNCHANGED <<cfg, wallet, last, sc, ui>>

CallGenerateGrid_part000 ==
  GenReady /\ genCall("part000", NoWilds) /\ UNCHANGED <<cfg, wallet, last, sc, ui>>

GenDraw == \E d \in Draws(cfg) : genDraw(d) /\ UNCHANGED <<cfg, wallet, last, sc, ui>>

InitGen ==
  /\ cfg \in GenConfigs
  /\ wallet = [balanceCents |-> 0, betCents |-> 1]
  /\ last = Call("new", NoArg, "ok", 0, NoResult)
  /\ gen = [kind |-> "none", st |-> genStart("none", cfg),
            wilds |-> NoWilds, wilds0 |-> NoWilds]
  /\ sc = ScIdle
  /\ ui = UiIdle

NextGen ==
  CallGenerateGrid \/ CallGenerateGridForBonus \/ CallGenerateGrid_part000 \/ GenDraw

SpecGen == InitGen /\ [][NextGen]_vars

\* the Scatters of column c of a grid
ScattersInColumn(grid, c) == {r \in DOMAIN grid : grid[r][c] = "FS"}

Returned(kinds) == gen.kind \in kinds /\ gen.st.done

\* C6: every column of a grid returned by a base grid generator holds at most
\* one Scatter.
C6_AtMostOneScatterPerColumn ==
  Returned({"base", "part000"}) =>
    \A c \in Cols(cfg) : Cardinality(ScattersInColumn(gen.st.grid, c)) <= 1

\* the same for the generator of slot-machine-ts/src/slotmachine.ts alone
C6_CurrentGeneratorOnly ==
  Returned({"base"}) =>
    \A c \in Cols(cfg) : Cardinality(ScattersInColumn(gen.st.grid, c)) <= 1

\* C7: a grid returned by the bonus grid generator has no Scatter on a cell
\* whose overlay value is nonzero and at most one Scatter per column, and the
\* overlay is as it was passed in.
C7_BonusGridRespectsOverlay ==
  Returned({"bonus"}) =>
    /\ \A p \in Cells(cfg) :
         gen.wilds0[p[1]][p[2]] # 0 => gen.st.grid[p[1]][p[2]] # "FS"
    /\ \A c \in Cols(cfg) : Cardinality(ScattersInColumn(gen.st.grid, c)) <= 1
    /\ gen.wilds = gen.wilds0

\* a returned bonus grid with a Scatter, on an overlay that has wild cells in
\* the Scatter's column
C7_Witness ==
  /\ Returned({"bonus"})
  /\ \E p \in Cells(cfg) :
       /\ gen.st.grid[p[1]][p[2]] = "FS"
       /\ \E r \in Rows(cfg) : gen.wilds0[r][p[2]] # 0

----------------------------------------------------------------------------
(* scoreGrid on its own: SpecScore.  Init draws the arguments of one call,  *)
(* the action is the call.                                                 *)

CfgLine ==
  [rows |-> 1, reels |-> 5,
   symbols |-> <<Sym("CHERRY", 3), Sym("SEVEN", 1), Sym("FS", 1)>>,
   payoutTable |-> DEFAULT_PAYOUT]

CfgSquare ==
  [rows |-> 3, reels |-> 3,
   symbols |-> <<Sym("CHERRY", 1), Sym("FS", 1)>>, payoutTable |-> DEFAULT_PAYOUT]

ScoreConfigs == {CfgLine, CfgSquare}

SymbolsOf(k) == {k.symbols[i].id : i \in 1..Len(k.symbols)}

Grids(k) == [Rows(k) -> [Cols(k) -> SymbolsOf(k)]]

\* overlays explored by scoreGrid: multipliers 0, 2 and 3 on the one-row grid,
\* up to three cells of multiplier 2 on the square one
ScoreOverlays(k) ==
  IF k.rows = 1 THEN [Rows(k) -> [Cols(k) -> {0, 2, 3}]]
  ELSE {w \in [Rows(k) -> [Cols(k) -> {0, 2}]] :
          Cardinality({p \in Cells(k) : w[p[1]][p[2]] > 0}) <= 3}

NoScore ==
  [threw |-> FALSE, totalWinCents |-> 0, lineWins |-> << >>,
   isJackpot |-> FALSE, bonusRetriggerSpins |-> 0]

InitScore ==
  /\ cfg \in ScoreConfigs
  /\ wallet = [balanceCents |-> 0, betCents |-> 1]
  /\ last = Call("new", NoArg, "ok", 0, NoResult)
  /\ gen = GenIdle
  /\ \E g \in Grids(cfg), b \in 1..MaxBet, inBonus \in BOOLEAN :
       \E w \in (IF inBonus THEN ScoreOverlays(cfg) ELSE {NoWilds}) :
         sc = [phase |-> "args", grid |-> g, betCents |-> b, wilds |-> w,
               isInBonus |-> inBonus, result |-> NoScore]
  /\ ui = UiIdle

ScoreGrid ==
  /\ sc.phase = "args"
  /\ sc' = [sc EXCEPT !.phase = "scored",
                      !.result = scoreGrid(cfg, sc.grid, sc.betCents, sc.wilds, sc.isInBonus)]
  /\ UNCHANGED <<cfg, wallet, last, gen, ui>>

\* the same arguments scored by the earlier copy of the engine
ScoreGrid_part000 ==
  /\ sc.phase = "args"
  /\ sc' = [sc EXCEPT !.phase = "scored_part000",
                      !.result = scoreGrid_part000(cfg, sc.grid, sc.betCents, sc.wilds)]
  /\ UNCHANGED <<cfg, wallet, last, gen, ui>>

NextScore == ScoreGrid \/ ScoreGrid_part000

SpecScore == InitScore /\ [][NextScore]_vars

----------------------------------------------------------------------------
(* Claims about scoreGrid, checked under SpecScore.  The scored lines, the  *)
(* target, the run and the payout are restated here on the grid itself.    *)

Scored == sc.phase = "scored"

\* a scored line: its start row and its row step; it starts at column 0 and
\* steps one column to the right
ScoredLines(k) ==
  {<<r0, 0>> : r0 \in Rows(k)}
    \cup {<<r0, 1>> : r0 \in {r \in Rows(k) : r + 2 < k.rows}}
    \cup {<<r0, -1>> : r0 \in {r \in Rows(k) : r >= 2}}

LineRow(l, i) == l[1] + i * l[2]

\* the positions (at most 5) of line l that lie on the grid
LineIdx(k, l) == {i \in 0..4 : LineRow(l, i) \in Rows(k) /\ i \in Cols(k)}

OverlayAt(w, r, c) == IF DOMAIN w = {} THEN 0 ELSE w[r][c]

IsWild(l, i) == OverlayAt(sc.wilds, LineRow(l, i), i) # 0

HasTarget(l) == \E i \in LineIdx(cfg, l) : ~IsWild(l, i)

TargetOf(l) ==
  LET first == CHOOSE i \in LineIdx(cfg, l) :
                 ~IsWild(l, i) /\ \A j \in LineIdx(cfg, l) : j < i => IsWild(l, j)
  IN sc.grid[LineRow(l, first)][first]

\* the leading positions that each hold the symbol t or are wild
RunOf(l, t) ==
  {i \in LineIdx(cfg, l) :
     \A j \in 0..i : sc.grid[LineRow(l, j)][j] = t \/ IsWild(l, j)}

RECURSIVE WildProduct(_, _)
WildProduct(l, S) ==
  IF S = {} THEN 1
  ELSE LET i == CHOOSE x \in S : TRUE
           w == OverlayAt(sc.wilds, LineRow(l, i), i)
       IN (IF w # 0 THEN w ELSE 1) * WildProduct(l, S \ {i})

\* floor(twice / 2), twice >= 0
FloorHalf(twice) == CHOOSE b \in 0..twice : 2 * b <= twice /\ twice < 2 * b + 2

\* floor(floor(bet x payout[t][len]) x P)
PayOf(t, len, P) == FloorHalf(sc.betCents * cfg.payoutTable[t][len]) * P

Sign(x) == IF x > 0 THEN 1 ELSE IF x < 0 THEN -1 ELSE 0

\* the recorded line wins of line l
EntriesOf(l) ==
  {i \in 1..Len(sc.result.lineWins) :
     LET e == sc.result.lineWins[i]
     IN e.startRow = l[1] /\ e.startCol = 0 /\ Sign(e.endRow - e.startRow) = l[2]}

RECURSIVE SumOfWins(_)
SumOfWins(S) ==
  IF S = {} THEN 0
  ELSE LET i == CHOOSE x \in S : TRUE
       IN sc.result.lineWins[i].winCents + SumOfWins(S \ {i})

\* C9: for every scored line that has a non-wild cell among its first 5
\* in-bounds cells, with target the symbol of the first such cell, length the
\* number of leading cells that hold the target or are wild, and P the product
\* of the wild multipliers of the counted cells: a LineWin is recorded iff
\* length >= 3 and floor(floor(bet x payout[target][length]) x P) > 0, and it
\* carries that length, target and win; totalWinCents is the sum of the
\* recorded wins, and every recorded win belongs to a scored line.
C9_RunLengthAndPayout ==
  Scored =>
    /\ \A l \in ScoredLines(cfg) :
         HasTarget(l) =>
           LET t == TargetOf(l)
               run == RunOf(l, t)
               len == Cardinality(run)
               win == PayOf(t, len, WildProduct(l, run))
           IN IF len >= 3 /\ win > 0
              THEN /\ Cardinality(EntriesOf(l)) = 1
                   /\ \A i \in EntriesOf(l) :
                        sc.result.lineWins[i]
                          = [startRow |-> l[1], startCol |-> 0,
                             endRow |-> LineRow(l, len - 1), endCol |-> len - 1,
                             length |-> len, symbol |-> t, winCents |-> win]
              ELSE EntriesOf(l) = {}
    /\ sc.result.totalWinCents = SumOfWins(1..Len(sc.result.lineWins))
    /\ 1..Len(sc.result.lineWins) = UNION {EntriesOf(l) : l \in ScoredLines(cfg)}

\* a diagonal whose first cell is wild, recorded with a target found further on
\* and a wild product above 1
C9_Witness ==
  /\ Scored
  /\ \E l \in ScoredLines(cfg) :
       /\ l[2] # 0
       /\ IsWild(l, 0)
       /\ HasTarget(l)
       /\ WildProduct(l, RunOf(l, TargetOf(l))) > 1
       /\ EntriesOf(l) # {}

\* the cells a recorded line win covers
EntryIdx(e) == 0..(e.length - 1)
EntryLine(e) == <<e.startRow, Sign(e.endRow - e.startRow)>>

\* C10 as stated: every recorded win is the single-floor value
\* floor(bet x payout[A][L] x P).
C10_SingleFloorPayout ==
  Scored =>
    \A i \in 1..Len(sc.result.lineWins) :
      LET e == sc.result.lineWins[i]
          P == WildProduct(EntryLine(e), EntryIdx(e))
      IN e.winCents = FloorHalf(sc.betCents * cfg.payoutTable[e.symbol][e.length] * P)

\* the row [wild x3, A, A, B, B] of the one-row configuration
ExampleRow(A, B) ==
  /\ cfg = CfgLine
  /\ A # B
  /\ sc.wilds # NoWilds
  /\ sc.wilds[0] = [c \in Cols(cfg) |-> IF c = 0 THEN 3 ELSE 0]
  /\ \A c \in Cols(cfg) : c > 0 => sc.grid[0][c] = (IF c <= 2 THEN A ELSE B)

\* C10, amended: every recorded win is floor(bet x payout[A][L]) x P, the
\* bet-times-payout product being floored before the wild product is applied;
\* the row [wild x3, A, A, B, B] pays floor(bet x payout[A][3]) x 3, recorded
\* when that is positive.
C10_FloorBeforeWildProduct ==
  Scored =>
    /\ \A i \in 1..Len(sc.result.lineWins) :
         LET e == sc.result.lineWins[i]
             P == WildProduct(EntryLine(e), EntryIdx(e))
         IN e.winCents = FloorHalf(sc.betCents * cfg.payoutTable[e.symbol][e.length]) * P
    /\ \A A, B \in SymbolsOf(cfg) :
         ExampleRow(A, B) =>
           LET pay == FloorHalf(sc.betCents * cfg.payoutTable[A][3]) * 3
           IN /\ sc.result.totalWinCents = pay
              /\ pay > 0 => /\ Len(sc.result.lineWins) = 1
                            /\ sc.result.lineWins[1].length = 3
                            /\ sc.result.lineWins[1].symbol = A

\* the example row with A = CHERRY (payout 1.5) at an odd bet: the two roundings
\* differ
C10_Witness ==
  /\ Scored
  /\ ExampleRow("CHERRY", "SEVEN")
  /\ sc.betCents = 1
  /\ sc.result.totalWinCents = 3

----------------------------------------------------------------------------
(* main.ts: bonus helpers *)

\* buildWinMask: the cells of the recorded line wins
buildWinMask(k, lineWins) ==
  [r \in Rows(k) |-> [c \in Cols(k) |->
     \E i \in 1..Len(lineWins) :
       LET w == lineWins[i]
           rStep == Sign(w.endRow - w.startRow)
           cStep == Sign(w.endCol - w.startCol)
       IN \E n \in 0..(w.length - 1) :
            r = w.startRow + n * rStep /\ c = w.startCol + n * cStep]]

\* incrementWildsByMask with the default cap (Number.POSITIVE_INFINITY)
incrementWildsByMask_anyCell(k, wilds, mask) ==
  [r \in Rows(k) |-> [c \in Cols(k) |->
     IF mask[r][c] THEN wilds[r][c] + 1 ELSE wilds[r][c]]]
incrementWildsByMask(k, wilds, mask) ==
  [r \in Rows(k) |-> [c \in Cols(k) |->
     IF mask[r][c] /\ wilds[r][c] > 0 THEN wilds[r][c] + 1 ELSE wilds[r][c]]]

\* the empty cells in the order spawnNewWilds collects them (row by row)
RECURSIVE emptyCells_all(_, _, _, _)
emptyCells_all(k, wilds, r, c) ==
  IF r >= k.rows THEN << >>
  ELSE IF c >= k.reels THEN emptyCells_all(k, wilds, r + 1, 0)
  ELSE <<(<<r, c>>)>> \o emptyCells_all(k, wilds, r, c + 1)
RECURSIVE emptyCells(_, _, _, _)
emptyCells(k, wilds, r, c) ==
  IF r >= k.rows THEN << >>
  ELSE IF c >= k.reels THEN emptyCells(k, wilds, r + 1, 0)
  ELSE (IF wilds[r][c] = 0 THEN <<(<<r, c>>)>> ELSE << >>)
         \o emptyCells(k, wilds, r, c + 1)

swap(arr, a, b) == [arr EXCEPT ![a] = arr[b], ![b] = arr[a]]

\* for (i = length - 1; i > 0; i--) { j = (Math.random() * (i + 1)) | 0; swap }
\* over every value of the draws; arr is indexed from 1, so position i is i + 1
RECURSIVE shuffle(_, _)
shuffle(arr, i) ==
  IF i < 1 THEN {arr}
  ELSE UNION {shuffle(swap(arr, i + 1, j + 1), i - 1) : j \in 0..i}

RECURSIVE setWilds(_, _, _)
setWilds(wilds, cells, n) ==
  IF n = 0 THEN wilds
  ELSE LET p == cells[n]
       IN [setWilds(wilds, cells, n - 1) EXCEPT ![p[1]][p[2]] = 1]

Min(a, b) == IF a < b THEN a ELSE b

\* spawnNewWilds: every overlay it can leave behind, over every value of its
\* Math.random() draws (the gate, the 1-or-2 coin, the shuffle)
spawnNewWilds(k, wilds) ==
  LET empty == emptyCells(k, wilds, 0, 0)
      maxNewPerSpin == 2
  IN {wilds}                                       \* Math.random() > chanceToSpawn
       \cup (IF Len(empty) = 0 THEN {wilds}
             ELSE {setWilds(wilds, arr, Min(Min(1 + coin, maxNewPerSpin), Len(empty))) :
                     arr \in shuffle(empty, Len(empty) - 1), coin \in {0, 1}})

----------------------------------------------------------------------------
(* main.ts: the page.  SpecUi                                              *)
(*                                                                         *)
(* ui.pc is the await at which onSpinClick (with the runBonusSession it    *)
(* calls) is suspended: "idle" (no handler in flight), "baseAnim" (l. 448),*)
(* "bonusDelay" (l. 454), "bonusAnim" (l. 368), "bonusPause" (l. 378).     *)
(* The code between two awaits runs as one step.  Fields N, executed,      *)
(* retriggers, retriggerOnLast, spinWinSum, balanceAtStart, session,       *)
(* overlap and clicks record history and are read by no handler.           *)
(* A run of the page is followed through its first bonus session: spin     *)
(* clicks after a session has ended are not explored, and a top-up is      *)
(* explored only while the balance is below one top-up.                    *)

\* the grid of the page (ROWS x COLS) is the machine's; a scaled-down machine
CfgUi ==
  [rows |-> 1, reels |-> 3,
   symbols |-> <<Sym("CHERRY", 1), Sym("FS", 1)>>, payoutTable |-> DEFAULT_PAYOUT]

UiConfigs == {CfgUi}

BetOptions == {1, 2}         \* the values of the bet <select>

AddFundsCents == 1000

NoMask(k) == [r \in Rows(k) |-> [c \in Cols(k) |-> FALSE]]

\* setDisabled: the spin button, the add-funds button and the bet <select>
\* share one flag
setDisabled_noop(u, disabled) == u
setDisabled(u, disabled) == [u EXCEPT !.disabled = disabled]

\* Number(betEl.value) || 100
betOr100(v) == IF v = 0 THEN 100 ELSE v

\* bonusTotal += scored.totalWinCents
accumulate_overwrite(bonusTotal, totalWinCents) == totalWinCents
accumulate(bonusTotal, totalWinCents) == bonusTotal + totalWinCents

\* the loop test i < freeSpins, evaluated before every iteration
loopContinues_upFront(i, freeSpins, initialFreeSpins) == i < initialFreeSpins
loopContinues(i, freeSpins, initialFreeSpins) == i < freeSpins

InitUi ==
  /\ cfg \in UiConfigs
  /\ \E b \in BetOptions, bal \in 0..2 :
       /\ wallet = [balanceCents |-> bal, betCents |-> b]
       /\ ui = [pc |-> "idle", disabled |-> FALSE, bonusActive |-> FALSE,
                betEl |-> b, awarded |-> 0,
                freeSpins |-> 0, i |-> 0, wilds |-> ZeroWilds(cfg),
                hasPrev |-> FALSE, prevWinMask |-> NoMask(cfg),
                bonusTotal |-> 0, betCents |-> 0, grid |-> EmptyGrid(cfg),
                pendingRetrigger |-> 0,
                hudHidden |-> TRUE, overlayHidden |-> TRUE, closeHidden |-> TRUE,
                bonusTotalEl |-> 0,
                session |-> "none", N |-> 0, executed |-> 0, retriggers |-> 0,
                retriggerOnLast |-> FALSE, spinWinSum |-> 0, balanceAtStart |-> 0,
                overlap |-> FALSE, clicks |-> 0]
  /\ last = Call("new", NoArg, "ok", 0, NoResult)
  /\ gen = GenIdle
  /\ sc = ScIdle

\* the synchronous head of one loop iteration (l. 343-367): increment by the
\* previous mask, spawn, generate the bonus grid; then await the animation
iterationStart(u) ==
  LET wilds1 == IF u.hasPrev THEN incrementWildsByMask(cfg, u.wilds, u.prevWinMask)
                ELSE u.wilds
  IN \E wilds2 \in spawnNewWilds(cfg, wilds1) :
       \E run \in generate("bonus", cfg, wilds2) :
         /\ u.retriggers >= MaxRetriggers => countScatters(cfg, run.grid) < 3
         /\ ui' = [u EXCEPT !.wilds = wilds2, !.grid = run.grid, !.pc = "bonusAnim"]

\* the locals of runBonusSession once it has returned or thrown
discardLocals(u) ==
  [u EXCEPT !.freeSpins = 0, !.i = 0, !.wilds = ZeroWilds(cfg), !.hasPrev = FALSE,
            !.prevWinMask = NoMask(cfg), !.bonusTotal = 0, !.betCents = 0,
            !.grid = EmptyGrid(cfg), !.pendingRetrigger = 0, !.awarded = 0]

\* the tail of runBonusSession (l. 386-401) and the finally of onSpinClick
settle(u) ==
  IF invalidFunds(Num(2 * u.bonusTotal))
  THEN \* addFunds throws; onSpinClick catches, alerts, re-enables
       /\ UNCHANGED wallet
       /\ ui' = [discardLocals(u) EXCEPT
                   !.pc = "idle", !.disabled = FALSE, !.session = "failed"]
  ELSE /\ wallet' = [wallet EXCEPT !.balanceCents = @ + u.bonusTotal]
       /\ ui' = [discardLocals(u) EXCEPT
                   !.pc = "idle", !.disabled = FALSE, !.bonusActive = FALSE,
                   !.hudHidden = TRUE, !.bonusTotalEl = u.bonusTotal,
                   !.closeHidden = FALSE, !.overlayHidden = FALSE,
                   !.session = "settled"]

\* click on the spin button, or Space while the button is enabled: onSpinClick
\* up to its first await (or to its end, when spin throws)
OnSpinClick ==
  /\ ~ui.disabled
  /\ ui.clicks < MaxClicks
  /\ ui.session = "none"
  /\ IF ui.pc # "idle"
     THEN ui' = [ui EXCEPT !.overlap = TRUE] /\ UNCHANGED wallet
     ELSE LET newBet == Num(2 * ui.betEl)
              w1 == IF invalidBet(newBet) THEN wallet
                    ELSE [wallet EXCEPT !.betCents = ui.betEl]
              u1 == [ui EXCEPT !.clicks = @ + 1]
          IN IF invalidBet(newBet) \/ insufficientBalance(w1)
             THEN /\ wallet' = w1
                  /\ ui' = setDisabled(u1, FALSE)
             ELSE \E run \in generate("base", cfg, NoWilds) :
                    LET out == spinOutcome(cfg, w1, run)
                    IN /\ wallet' = out.wallet
                       /\ ui' = [setDisabled(u1, TRUE) EXCEPT
                                   !.pc = "baseAnim",
                                   !.awarded = out.result.freeSpinsAwarded]
  /\ UNCHANGED <<cfg, last, gen, sc>>

\* click on the add-funds button
OnAddFunds ==
  /\ ~ui.disabled
  /\ wallet.balanceCents < AddFundsCents
  /\ wallet' = [wallet EXCEPT !.balanceCents = @ + AddFundsCents]
  /\ UNCHANGED ui
  /\ UNCHANGED <<cfg, last, gen, sc>>

\* the user picks another bet in the <select>
OnBetChange ==
  /\ ~ui.disabled
  /\ \E v \in BetOptions :
       /\ v # ui.betEl
       /\ ui' = [ui EXCEPT !.betEl = v]
       /\ wallet' = IF invalidBet(Num(2 * v)) THEN wallet
                    ELSE [wallet EXCEPT !.betCents = v]
  /\ UNCHANGED <<cfg, last, gen, sc>>

\* the base spin's animation resolves (l. 449-456, and the finally)
BaseAnimDone ==
  /\ ui.pc = "baseAnim"
  /\ ui' = IF ui.awarded > 0 THEN [ui EXCEPT !.pc = "bonusDelay"]
           ELSE [ui EXCEPT !.pc = "idle", !.disabled = FALSE]
  /\ UNCHANGED <<cfg, wallet, last, gen, sc>>

\* the 600 ms pass: runBonusSession(result.freeSpinsAwarded) up to its first await
BonusDelayDone ==
  /\ ui.pc = "bonusDelay"
  /\ iterationStart([ui EXCEPT
       !.bonusActive = TRUE, !.disabled = TRUE,
       !.wilds = ZeroWilds(cfg), !.overlayHidden = TRUE, !.closeHidden = TRUE,
       !.hudHidden = FALSE, !.bonusTotal = 0, !.betCents = betOr100(ui.betEl),
       !.hasPrev = FALSE, !.prevWinMask = NoMask(cfg), !.pendingRetrigger = 0,
       !.freeSpins = ui.awarded, !.i = 0,
       !.session = "running", !.N = ui.awarded, !.executed = 0, !.retriggers = 0,
       !.retriggerOnLast = FALSE, !.spinWinSum = 0,
       !.balanceAtStart = wallet.balanceCents])
  /\ UNCHANGED <<cfg, wallet, last, gen, sc>>

\* a bonus spin's animation resolves: score, accumulate, build the mask (l. 371-378)
BonusAnimDone ==
  /\ ui.pc = "bonusAnim"
  /\ LET scored == scoreGrid(cfg, ui.grid, ui.betCents, ui.wilds, TRUE)
         signalled == scored.bonusRetriggerSpins > 0
     IN ui' = [ui EXCEPT
                 !.bonusTotal = accumulate(ui.bonusTotal, scored.totalWinCents),
                 !.prevWinMask = buildWinMask(cfg, scored.lineWins),
                 !.hasPrev = TRUE,
                 !.pendingRetrigger = scored.bonusRetriggerSpins,
                 !.grid = EmptyGrid(cfg),      \* not read after scoring
                 !.pc = "bonusPause",
                 !.executed = @ + 1,
                 !.spinWinSum = @ + scored.totalWinCents,
                 !.retriggers = IF signalled THEN @ + 1 ELSE @,
                 !.retriggerOnLast = @ \/ (signalled /\ ui.i + 1 = ui.freeSpins)]
  /\ UNCHANGED <<cfg, wallet, last, gen, sc>>

\* the 700 ms pass: retrigger, i++, loop test, then the next iteration's head
\* or the end of the session (l. 380-401)
BonusPauseDone ==
  /\ ui.pc = "bonusPause"
  /\ LET u == [ui EXCEPT !.freeSpins = @ + ui.pendingRetrigger, !.i = @ + 1]
     IN IF loopContinues(u.i, u.freeSpins, ui.N)
        THEN iterationStart(u) /\ UNCHANGED wallet
        ELSE settle(u)
  /\ UNCHANGED <<cfg, last, gen, sc>>

\* click on the end card's close button
OnBonusClose ==
  /\ ~ui.closeHidden /\ ~ui.overlayHidden
  /\ ui' = [ui EXCEPT !.overlayHidden = TRUE]
  /\ UNCHANGED <<cfg, wallet, last, gen, sc>>

NextUi ==
  \/ OnSpinClick \/ OnAddFunds \/ OnBetChange \/ BaseAnimDone
  \/ BonusDelayDone \/ BonusAnimDone \/ BonusPauseDone \/ OnBonusClose

SpecUi == InitUi /\ [][NextUi]_vars

-----------------------------------------------------------------------------
(* Properties of the bonus session, under SpecUi                           *)

SessionEnded(u) == u.session \in {"settled", "failed"}

\* C4: during a bonus session no step of a free spin changes the wallet; the
\* step that ends the session leaves the bet alone and makes the balance the
\* balance at the session's start plus the sum of the totalWinCents of the
\* free spins executed (a sum of 0 included).
C4_BonusCreditedOnceAtEnd ==
  [][ui.session = "running" =>
       IF ui'.session = "running"
       THEN wallet' = wallet
       ELSE /\ SessionEnded(ui')
            /\ wallet'.betCents = wallet.betCents
            /\ wallet.balanceCents = ui.balanceAtStart
            /\ wallet'.balanceCents = ui'.balanceAtStart + ui'.spinWinSum
            /\ ui'.spinWinSum = ui.spinWinSum]_vars

\* a session of at least N spins has ended and its positive total is credited
C4_Witness ==
  /\ ui.session = "settled"
  /\ ui.executed >= ui.N /\ ui.N > 0
  /\ ui.spinWinSum > 0
  /\ wallet.balanceCents = ui.balanceAtStart + ui.spinWinSum
  /\ ui.bonusTotalEl = ui.spinWinSum

\* C5: in a session started with N > 0 free spins the spin count never
\* decreases; at every loop head it is N plus 2 per spin executed so far whose
\* score signalled a retrigger; and when the session ends the number of spins
\* executed is N + 2 x (number of retriggering spins), which is >= N.
C5_SpinCountGrowsByRetriggers ==
  [][ui.session = "running" =>
       /\ ui.N > 0 /\ ui'.N = ui.N
       /\ ui'.retriggers >= ui.retriggers
       /\ IF ui'.session = "running"
          THEN /\ ui'.freeSpins >= ui.freeSpins
               /\ ui'.pc = "bonusAnim" =>
                    /\ ui'.freeSpins = ui'.N + 2 * ui'.retriggers
                    /\ ui'.executed < ui'.freeSpins
          ELSE /\ SessionEnded(ui')
               /\ ui'.executed = ui'.N + 2 * ui'.retriggers
               /\ ui'.executed >= ui'.N]_vars

\* a session has ended after a retrigger on its last scheduled spin
C5_Witness ==
  /\ SessionEnded(ui)
  /\ ui.retriggerOnLast /\ ui.retriggers >= 1
  /\ ui.N > 0
  /\ ui.executed = ui.N + 2 * ui.retriggers

\* C14: a bonus session whose spin loop has exited is in its settled end
\* state: the accumulated total has been settled against the wallet, the final
\* total is exposed with the end card, the controls are enabled again and the
\* session is no longer marked active; no session whose handler has returned
\* is left marked as running.
C14_SessionReachesSettledState ==
  SessionEnded(ui) =>
    /\ ui.session = "settled"
    /\ ~ui.bonusActive
    /\ ui.hudHidden
    /\ ~ui.closeHidden
    /\ ui.bonusTotalEl = ui.spinWinSum
    /\ ~ui.disabled

\* a session in which no free spin won: addFunds(0) threw, onSpinClick caught
\* it and re-enabled the controls, the page still shows a running session
C14_ZeroTotalSessionStuck ==
  /\ ui.session = "failed"
  /\ ui.executed >= ui.N /\ ui.N > 0
  /\ ui.spinWinSum = 0
  /\ ui.pc = "idle" /\ ~ui.disabled
  /\ ui.bonusActive /\ ~ui.hudHidden /\ ui.closeHidden

\* what does hold: a session with a positive total ends settled
C14_PositiveTotalSettles ==
  SessionEnded(ui) /\ ui.spinWinSum > 0 =>
    /\ ui.session = "settled"
    /\ ~ui.bonusActive /\ ui.hudHidden /\ ~ui.closeHidden /\ ~ui.disabled
    /\ ui.bonusTotalEl = ui.spinWinSum

\* onSpinClick, with the runBonusSession it may call, has not finished
InFlight(u) == u.pc # "idle"

\* C17: from the acceptance of a spin click until its handler, bonus session
\* included, has finished, the three controls are disabled and every step is
\* the handler's own: no click or Space starts a second spin, no second
\* session starts, the bet is not changed, and the balance changes only by the
\* session's own credit at its end, never by an add-funds.
C17_OneOperationInFlight ==
  [][InFlight(ui) =>
       /\ ui.disabled
       /\ ~ui'.overlap
       /\ ui'.clicks = ui.clicks
       /\ ui'.betEl = ui.betEl /\ wallet'.betCents = wallet.betCents
       /\ ui'.session # ui.session =>
            \/ ui.pc = "bonusDelay" /\ ui.session = "none" /\ ui'.session = "running"
            \/ ui.pc = "bonusPause" /\ ui.session = "running" /\ SessionEnded(ui')
       /\ wallet'.balanceCents # wallet.balanceCents =>
            /\ ui.pc = "bonusPause" /\ ui'.session = "settled"
            /\ wallet'.balanceCents = wallet.balanceCents + ui.spinWinSum
       /\ InFlight(ui') => ui'.disabled]_vars

\* a bonus session is in flight after several spins, the controls are
\* disabled, and the balance is one an add-funds click would be taken at
C17_Witness ==
  /\ ui.pc = "bonusPause" /\ ui.session = "running"
  /\ ui.executed >= 2
  /\ ui.disabled
  /\ wallet.balanceCents < AddFundsCents
  /\ \E v \in BetOptions : v # ui.betEl

-----------------------------------------------------------------------------
(* Further properties of scoreGrid, under SpecScore                        *)

ScoredByAnyCopy == sc.phase \in {"scored", "scored_part000"}

\* the non-Scatter symbols of the configuration with the highest 5-run payout
BestSymbols(k) ==
  {b \in SymbolsOf(k) \ {"FS"} :
     \A t \in SymbolsOf(k) \ {"FS"} : k.payoutTable[t][5] <= k.payoutTable[b][5]}

AllWildLines == {l \in ScoredLines(cfg) : ~HasTarget(l)}

\* one best symbol B serves every all-wild line of the call: the line's run is
\* all its in-bounds cells, and it is recorded with B under the usual rule
AllWildLinesPaid ==
  \E B \in BestSymbols(cfg) :
    \A l \in AllWildLines :
      LET run == LineIdx(cfg, l)
          len == Cardinality(run)
          win == PayOf(B, len, WildProduct(l, run))
      IN IF len >= 3 /\ win > 0
         THEN /\ Cardinality(EntriesOf(l)) = 1
              /\ \A i \in EntriesOf(l) :
                   sc.result.lineWins[i]
                     = [startRow |-> l[1], startCol |-> 0,
                        endRow |-> LineRow(l, len - 1), endCol |-> len - 1,
                        length |-> len, symbol |-> B, winCents |-> win]
         ELSE EntriesOf(l) = {}

\* C11: a scored line all of whose in-bounds cells (up to 5) are wild is not
\* skipped: its target is the non-Scatter symbol with the highest 5-run payout,
\* the same for every line of the call, and the line is recorded with it like
\* any other run.  Stated of every scoreGrid of the repository.
C11_AllWildLinePaysBestSymbol == ScoredByAnyCopy => AllWildLinesPaid

\* the same statement of scoreGrid of slotmachine.ts alone
C11_CurrentScorerOnly == Scored => AllWildLinesPaid

\* the current scoreGrid has recorded an all-wild line with the best symbol
C11_CurrentScorerWitness ==
  /\ Scored
  /\ \E l \in AllWildLines : \E i \in EntriesOf(l) :
       /\ sc.result.lineWins[i].symbol \in BestSymbols(cfg)
       /\ sc.result.lineWins[i].symbol # cfg.symbols[1].id

\* the cells of the scored grid that hold a Scatter, wherever they are
ScattersAnywhere == {p \in Cells(cfg) : sc.grid[p[1]][p[2]] = "FS"}

\* C13: scoreGrid (slotmachine.ts) reports bonusRetriggerSpins = 2 iff it is
\* called in bonus mode and the grid holds at least 3 Scatters anywhere; in
\* every other case, and always outside bonus mode, the field is present and
\* 0; and totalWinCents and the line wins are those of the same call with the
\* mode flipped, so the field's value does not affect them.
C13_RetriggerField ==
  Scored =>
    /\ "bonusRetriggerSpins" \in DOMAIN sc.result
    /\ sc.result.bonusRetriggerSpins
         = (IF sc.isInBonus /\ Cardinality(ScattersAnywhere) >= 3 THEN 2 ELSE 0)
    /\ LET other == scoreGrid(cfg, sc.grid, sc.betCents, sc.wilds, ~sc.isInBonus)
       IN /\ sc.result.totalWinCents = other.totalWinCents
          /\ sc.result.lineWins = other.lineWins
          /\ sc.result.isJackpot = other.isJackpot

\* bonus mode, 3 Scatters that share no row and form no line, a retrigger of 2
\* next to a line win
C13_Witness ==
  /\ Scored /\ sc.isInBonus
  /\ Cardinality(ScattersAnywhere) = 3
  /\ \A p, q \in ScattersAnywhere : p # q => p[1] # q[1] /\ p[2] - q[2] \notin {1, -1}
  /\ sc.result.bonusRetriggerSpins = 2
  /\ sc.result.totalWinCents > 0

\* outside bonus mode the same number of Scatters leaves the field at 0
C13_BaseModeWitness ==
  /\ Scored /\ ~sc.isInBonus
  /\ Cardinality(ScattersAnywhere) >= 3
  /\ sc.result.bonusRetriggerSpins = 0

-----------------------------------------------------------------------------
(* The constructor.  SpecNew                                               *)
(*                                                                         *)
(* cfg and wallet are the arguments of new SlotMachine(config, wallet);    *)
(* last.status is "pending" before the call, then "ok" (an engine holding  *)
(* cfg exists) or "Error" (the constructor threw, no engine exists).       *)

\* a payout table keeping, of DEFAULT_PAYOUT, the lengths kept[s] of every
\* symbol s, and no row at all for a symbol with kept[s] = {0}
partialPayout(kept) ==
  [s \in {t \in DOMAIN kept : kept[t] # {0}} |->
     [l \in kept[s] |-> DEFAULT_PAYOUT[s][l]]]

NewSymbolLists == {<< >>, <<Sym("CHERRY", 1)>>, <<Sym("CHERRY", 1), Sym("FS", 1)>>}

NewPayoutTables ==
  {partialPayout(kept) : kept \in [{"CHERRY", "FS"} -> (SUBSET (3..5)) \cup {{0}}]}

NewConfigs ==
  [rows : -1..MaxDim, reels : -1..MaxDim,
   symbols : NewSymbolLists, payoutTable : NewPayoutTables]

\* the two checks of the constructor, in order; nothing reads payoutTable
constructorThrows(config) ==
  \/ config.reels <= 0 \/ config.rows <= 0
  \/ Len(config.symbols) = 0

InitNew ==
  /\ cfg \in NewConfigs
  /\ wallet = [balanceCents |-> 0, betCents |-> 1]
  /\ last = Call("new", NoArg, "pending", 0, NoResult)
  /\ gen = GenIdle
  /\ sc = ScIdle
  /\ ui = UiIdle

New ==
  /\ last.op = "new" /\ last.status = "pending"
  /\ last' = [last EXCEPT !.status = IF constructorThrows(cfg) THEN "Error" ELSE "ok"]
  /\ UNCHANGED <<cfg, wallet, gen, sc, ui>>

NextNew == New

SpecNew == InitNew /\ [][NextNew]_vars

Constructed == last.op = "new" /\ last.status # "pending"

\* the payout table has a 3, a 4 and a 5 entry for every configured symbol
PayoutComplete(config) ==
  \A i \in 1..Len(config.symbols) :
    /\ config.symbols[i].id \in DOMAIN config.payoutTable
    /\ (3..5) \subseteq DOMAIN config.payoutTable[config.symbols[i].id]

\* C12: the constructor fails, and no engine is produced, exactly when
\* rows <= 0, or reels <= 0, or the symbol list is empty, or the payout table
\* lacks a 3/4/5 entry for a configured symbol; it succeeds otherwise.
C12_ConstructorValidatesConfig ==
  Constructed =>
    (last.status = "Error"
       <=> \/ cfg.rows <= 0 \/ cfg.reels <= 0
           \/ Len(cfg.symbols) = 0
           \/ ~PayoutComplete(cfg))

\* what the constructor does check: the dimensions and the symbol list
C12_DimensionsAndSymbolsOnly ==
  Constructed =>
    (last.status = "Error"
       <=> cfg.rows <= 0 \/ cfg.reels <= 0 \/ Len(cfg.symbols) = 0)

\* an engine exists whose payout table has no row for a configured symbol
C12_IncompleteTableAccepted ==
  /\ Constructed /\ last.status = "ok"
  /\ ~PayoutComplete(cfg)

-----------------------------------------------------------------------------
(* The overlay through the steps of a bonus spin.  SpecWilds               *)
(*                                                                         *)
(* The head of a loop iteration of runBonusSession, which SpecUi takes as  *)
(* one step, is taken here statement by statement: ui.pc is "step1"        *)
(* (before the increment, l. 346), "step3" (before the spawn, l. 358),     *)
(* "step4" (before generateGridForBonus, l. 367) or "step5" (before        *)
(* scoreGrid, l. 371).  ui.lineWins is scored.lineWins of the preceding    *)
(* spin.  The first MaxSteppedSpins spins of a session are followed.       *)

CfgWilds ==
  [rows |-> 2, reels |-> 3,
   symbols |-> <<Sym("CHERRY", 1), Sym("FS", 1)>>, payoutTable |-> DEFAULT_PAYOUT]

WildsConfigs == {CfgWilds}

InitWilds ==
  /\ cfg \in WildsConfigs
  /\ wallet = [balanceCents |-> 0, betCents |-> 1]
  /\ last = Call("new", NoArg, "ok", 0, NoResult)
  /\ gen = GenIdle
  /\ sc = ScIdle
  /\ \E b \in BetOptions :
       ui = [pc |-> "step1", i |-> 0, wilds |-> ZeroWilds(cfg),
             hasPrev |-> FALSE, prevWinMask |-> NoMask(cfg),
             lineWins |-> << >>, grid |-> EmptyGrid(cfg), betCents |-> betOr100(b)]

\* 1) if (prevWinMask) incrementWildsByMask(wilds, prevWinMask)
IncrementStep ==
  /\ ui.pc = "step1"
  /\ ui.i <= MaxSteppedSpins
  /\ ui' = [ui EXCEPT
              !.wilds = IF ui.hasPrev
                        THEN incrementWildsByMask(cfg, ui.wilds, ui.prevWinMask)
                        ELSE ui.wilds,
              !.pc = "step3"]
  /\ UNCHANGED <<cfg, wallet, last, gen, sc>>

\* 3) spawnNewWilds(wilds)
SpawnStep ==
  /\ ui.pc = "step3"
  /\ ui.i < MaxSteppedSpins
  /\ \E w \in spawnNewWilds(cfg, ui.wilds) :
       ui' = [ui EXCEPT !.wilds = w, !.pc = "step4"]
  /\ UNCHANGED <<cfg, wallet, last, gen, sc>>

\* 4) grid = machine.generateGridForBonus(wilds), and the animation
GenerateStep ==
  /\ ui.pc = "step4"
  /\ \E run \in generate("bonus", cfg, ui.wilds) :
       ui' = [ui EXCEPT !.grid = run.grid, !.pc = "step5"]
  /\ UNCHANGED <<cfg, wallet, last, gen, sc>>

\* 5), 6) score, build the mask for the next spin, pause, i++
ScoreStep ==
  /\ ui.pc = "step5"
  /\ LET scored == scoreGrid(cfg, ui.grid, ui.betCents, ui.wilds, TRUE)
     IN ui' = [ui EXCEPT !.lineWins = scored.lineWins,
                         !.prevWinMask = buildWinMask(cfg, scored.lineWins),
                         !.hasPrev = TRUE,
                         !.grid = EmptyGrid(cfg),
                         !.i = @ + 1,
                         !.pc = "step1"]
  /\ UNCHANGED <<cfg, wallet, last, gen, sc>>

NextWilds == IncrementStep \/ SpawnStep \/ GenerateStep \/ ScoreStep

SpecWilds == InitWilds /\ [][NextWilds]_vars

\* the cell lies on a line win recorded by the preceding spin
OnRecordedWin(p) ==
  \E n \in 1..Len(ui.lineWins) :
    LET e == ui.lineWins[n]
    IN /\ p[2] >= e.startCol /\ p[2] <= e.endCol
       /\ p[1] = e.startRow + (p[2] - e.startCol) * Sign(e.endRow - e.startRow)

\* C15: step 1 of a bonus spin raises a cell's multiplier by exactly 1 iff the
\* cell is already wild and lies on a line win recorded by the preceding spin
\* of the session, and leaves every other cell as it was; the first spin
\* increments nothing; and no later step of the spin changes a wild cell, so
\* a wild the spin spawns (at 1) is not incremented in that spin.
C15_IncrementOnlyWildsOnPreviousWins ==
  [][/\ ui.pc = "step1" =>
          \A p \in Cells(cfg) :
            ui'.wilds[p[1]][p[2]]
              = ui.wilds[p[1]][p[2]]
                  + (IF ui.wilds[p[1]][p[2]] > 0 /\ ui.i > 0 /\ OnRecordedWin(p)
                     THEN 1 ELSE 0)
     /\ ui.pc = "step1" /\ ui.i = 0 => ui'.wilds = ui.wilds
     /\ ui.pc \in {"step3", "step4", "step5"} =>
          \A p \in Cells(cfg) :
            IF ui.wilds[p[1]][p[2]] > 0
            THEN ui'.wilds[p[1]][p[2]] = ui.wilds[p[1]][p[2]]
            ELSE ui'.wilds[p[1]][p[2]] \in {0, 1}]_vars

\* after step 1 of the second spin: a wild on the preceding spin's win is at 2,
\* a wild off every recorded win is still at 1
C15_Witness ==
  /\ ui.pc = "step3" /\ ui.i = 1
  /\ \E p, q \in Cells(cfg) :
       /\ ui.wilds[p[1]][p[2]] = 2 /\ OnRecordedWin(p)
       /\ ui.wilds[q[1]][q[2]] = 1 /\ ~OnRecordedWin(q)

WildCells(w) == {p \in Cells(cfg) : w[p[1]][p[2]] > 0}

\* C16: the spawn step of a bonus spin changes at most min(2, number of empty
\* cells) cells, each from 0 to exactly 1, and leaves every cell that already
\* had a nonzero multiplier as it was; and no step of the session lowers a
\* cell's multiplier, so no wild is ever removed.
C16_SpawnOnlyIntoEmptyCells ==
  [][/\ ui.pc = "step3" =>
          LET new == {p \in Cells(cfg) : ui'.wilds[p[1]][p[2]] # ui.wilds[p[1]][p[2]]}
              empty == Cells(cfg) \ WildCells(ui.wilds)
          IN /\ Cardinality(new) <= 2
             /\ Cardinality(new) <= Cardinality(empty)
             /\ \A p \in new :
                  ui.wilds[p[1]][p[2]] = 0 /\ ui'.wilds[p[1]][p[2]] = 1
     /\ \A p \in Cells(cfg) : ui'.wilds[p[1]][p[2]] >= ui.wilds[p[1]][p[2]]
     /\ WildCells(ui.wilds) \subseteq WildCells(ui'.wilds)]_vars

\* after the spawn of the second spin: four wilds, so both spins spawned two,
\* and one of the first spin's wilds has grown to 2 and was left alone
C16_Witness ==
  /\ ui.pc = "step4" /\ ui.i = 1
  /\ Cardinality(WildCells(ui.wilds)) = 4
  /\ \E p \in Cells(cfg) : ui.wilds[p[1]][p[2]] = 2

-----------------------------------------------------------------------------
(* Termination of the generators of slotmachine.ts, under SpecGen          *)

Running(kinds) == gen.kind \in kinds /\ ~gen.st.done

\* some value of the next draw is placed, i.e. leaves the do-while loop
SomeDrawAdvances ==
  \E d \in Draws(cfg) : GenStep(cfg, gen.wilds, gen.st, d) # gen.st

GridComplete ==
  \A p \in Cells(cfg) : gen.st.grid[p[1]][p[2]] \in SymbolsOf(cfg)

\* C18: for every accepted configuration and every overlay, a running base or
\* bonus generator can always leave its rejection loop (some draw is placed,
\* so fair draws terminate it), and the grid it returns holds a symbol of the
\* configuration in every cell.
C18_GeneratorsTerminate ==
  /\ Running({"base", "bonus"}) => SomeDrawAdvances
  /\ Returned({"base", "bonus"}) => GridComplete

\* the configuration has a symbol other than the Scatter (of positive weight)
HasNonScatter(k) ==
  \E i \in 1..Len(k.symbols) : k.symbols[i].id # "FS" /\ k.symbols[i].weight > 0

\* what does hold: with a non-Scatter symbol to draw, the loops can always exit
C18_TerminateWithNonScatter ==
  HasNonScatter(cfg) => C18_GeneratorsTerminate

\* generateGrid on the Scatter-only configuration: the first cell of the column
\* holds the Scatter, the second can never be filled
C18_ScatterOnlyLoopsForever ==
  /\ Running({"base"})
  /\ ~HasNonScatter(cfg)
  /\ gen.st.fsPlaced
  /\ ~SomeDrawAdvances

====
